---- MODULE Spec2Model ----
(***************************************************************************)
(* PingPongCell (src/src/lib.rs) and the oneshot channel built on it       *)
(* (src/tests/test.rs).                                                    *)
(*                                                                         *)
(* The cell is an AtomicUsize lock word `state` and an UnsafeCell slot     *)
(* `value`.  Every operation spins on compare_and_swap(WAITING, WORKING),  *)
(* touches the slot, stores the lock word and returns.  Each of these is   *)
(* one step of the model, so that interleavings of several threads inside  *)
(* one operation are explored.                                             *)
(***************************************************************************)
EXTENDS Naturals, FiniteSets, Sequences, TLC

VARIABLES
    state,      \* PingPongCell.state : AtomicUsize
    value,      \* PingPongCell.value : UnsafeCell<Option<T>>
    pc,         \* per thread / task: position in the running operation
    op,         \* per thread: the operation called and its arguments
    local,      \* per thread: the operation's local (`val`, `ret`, `wake_me`)
    ret,        \* per thread: what the last finished operation returned
    pre,        \* per thread: the slot as found when the lock was acquired
    notified,   \* per task: a wake of its Waker is pending
    hist        \* observations of the channel run (what happened so far)

vars == <<state, value, pc, op, local, ret, pre, notified, hist>>

chanVars == <<notified, hist>>

\* ------------------------------------------------------------------ bounds

NThreads == 2

MaxVal == 2

NRace == 3

Threads == 1..NThreads

Values == 1..MaxVal

RaceThreads == 1..NRace

\* --------------------------------------------------------------- constants

WAITING == 0

WORKING == 1

\* ------------------------------------------------------------- value types

None == <<"None">>

Some(x) == <<"Some", x>>

IsSome(o) == o[1] = "Some"

Unwrap(o) == o[2]

Ok == <<"Ok">>

Err(x) == <<"Err", x>>

Unit == <<"Unit">>

NoRet == <<"NoRet">>

OptValues == {None} \cup {Some(v) : v \in Values}

NoOp == [name |-> "none", expected |-> 0, new |-> 0]

Ops ==
    {[name |-> "take", expected |-> 0, new |-> 0],
     [name |-> "clone_inner", expected |-> 0, new |-> 0]}
    \cup {[name |-> n, expected |-> 0, new |-> v] :
            n \in {"put", "put_if_empty"}, v \in Values}
    \cup {[name |-> n, expected |-> e, new |-> v] :
            n \in {"compare_and_swap", "compare_swap_clone"},
            e \in Values, v \in Values}

\* ------------------------------------------------------------ the lock word

\* AtomicUsize::compare_and_swap(current, new): the value stored afterwards.
\* (It returns the previous value, which the callers match against WAITING.)
CasStore(old, current, new) == IF old = current THEN new ELSE old

\* Faulty variant: the loop enters the unsafe block whatever the lock word was.
CasWonAlways(old) == TRUE

\* `if let WAITING = self.state.compare_and_swap(WAITING, WORKING, Acquire)`
CasWon(old) == old = WAITING

\* The loop head shared by all six operations, run by thread t inside
\* operation o: one compare_and_swap; on success the thread enters the unsafe
\* block, otherwise spin_loop_hint() and the loop repeats (the state is left
\* as it was).  The six loop heads are the same code and none reads the
\* operation's arguments, so o is recorded when the lock is won.
TryLock(t, o) ==
    /\ pc[t] = "cas"
    /\ state' = CasStore(state, WAITING, WORKING)
    /\ IF CasWon(state)
         THEN /\ pc' = [pc EXCEPT ![t] = "slot"]
              /\ op' = [op EXCEPT ![t] = o]
              /\ pre' = [pre EXCEPT ![t] = value]
         ELSE UNCHANGED <<pc, op, pre>>
    /\ UNCHANGED <<value, local, ret, chanVars>>

\* A thread calls an operation of the cell and reaches its loop head.
Call(t) ==
    /\ pc[t] = "idle"
    /\ pc' = [pc EXCEPT ![t] = "cas"]
    /\ ret' = [ret EXCEPT ![t] = NoRet]
    /\ UNCHANGED <<state, value, op, local, pre, chanVars>>

\* The operation returns r to its caller; its frame is gone.
Return(t, r) ==
    /\ pc' = [pc EXCEPT ![t] = "idle"]
    /\ ret' = [ret EXCEPT ![t] = r]
    /\ local' = [local EXCEPT ![t] = NoRet]
    /\ op' = [op EXCEPT ![t] = NoOp]
    /\ pre' = [pre EXCEPT ![t] = None]

\* ---------------------------------------------------------------- take

\* The lock word take() stores before returning.
TakeStoreWord == WORKING

Take(t) ==
    /\ op[t].name = "take"
    /\ \/ /\ pc[t] = "slot"                        \* let val = (*slot).take()
          /\ local' = [local EXCEPT ![t] = value]
          /\ value' = None
          /\ pc' = [pc EXCEPT ![t] = "store"]
          /\ UNCHANGED <<state, ret, op, pre>>
       \/ /\ pc[t] = "store"                       \* state.store(..); val
          /\ state' = TakeStoreWord
          /\ Return(t, local[t])
          /\ UNCHANGED value
    /\ UNCHANGED chanVars

\* ---------------------------------------------------------------- put

Put(t) ==
    /\ op[t].name = "put"
    /\ \/ /\ pc[t] = "slot"                        \* *slot = Some(value)
          /\ value' = Some(op[t].new)
          /\ pc' = [pc EXCEPT ![t] = "store"]
          /\ UNCHANGED <<state, ret, local, op, pre>>
       \/ /\ pc[t] = "store"                       \* state.store(WAITING)
          /\ state' = WAITING
          /\ Return(t, Unit)
          /\ UNCHANGED value
    /\ UNCHANGED chanVars

\* ------------------------------------------------------- put_if_empty

\* Faulty variant: the occupancy test never fires, so every call overwrites.
PutIfEmptyFullNever(slot) == FALSE

\* `(*inner).is_some()`
PutIfEmptyFull(slot) == IsSome(slot)

PutIfEmpty(t) ==
    /\ op[t].name = "put_if_empty"
    /\ \/ /\ pc[t] = "slot"
          /\ PutIfEmptyFull(value)                 \* Err(value): returns at once
          /\ Return(t, Err(op[t].new))
          /\ UNCHANGED <<state, value>>
       \/ /\ pc[t] = "slot"
          /\ ~PutIfEmptyFull(value)
          /\ pc' = [pc EXCEPT ![t] = "write"]
          /\ UNCHANGED <<state, value, ret, local, op, pre>>
       \/ /\ pc[t] = "write"                       \* *inner = Some(value)
          /\ value' = Some(op[t].new)
          /\ pc' = [pc EXCEPT ![t] = "store"]
          /\ UNCHANGED <<state, ret, local, op, pre>>
       \/ /\ pc[t] = "store"                       \* state.store(WAITING); Ok(())
          /\ state' = WAITING
          /\ Return(t, Ok)
          /\ UNCHANGED value
    /\ UNCHANGED chanVars

\* -------------------------------------------------------- clone_inner

CloneInner(t) ==
    /\ op[t].name = "clone_inner"
    /\ \/ /\ pc[t] = "slot"                        \* let val = (*slot).clone()
          /\ local' = [local EXCEPT ![t] = value]
          /\ pc' = [pc EXCEPT ![t] = "store"]
          /\ UNCHANGED <<state, value, ret, op, pre>>
       \/ /\ pc[t] = "store"                       \* state.store(WAITING); val
          /\ state' = WAITING
          /\ Return(t, local[t])
          /\ UNCHANGED value
    /\ UNCHANGED chanVars

\* --------------------------------------- compare_and_swap / _swap_clone

\* Faulty variant: the comparison is dropped: any stored value is replaced.
CasMatchesAny(val, expected) == TRUE

\* `val == expected`
CasMatches(val, expected) == val = expected

\* What the failing branch hands back: Err(new) or Err((new, copy of slot)).
CasFailure(name, new, slot) ==
    IF name = "compare_and_swap" THEN Err(new) ELSE Err(<<new, slot>>)

CompareAndSwap(t) ==
    /\ op[t].name \in {"compare_and_swap", "compare_swap_clone"}
    /\ \/ /\ pc[t] = "slot"                        \* Some(val), val == expected
          /\ IsSome(value)
          /\ CasMatches(Unwrap(value), op[t].expected)
          /\ pc' = [pc EXCEPT ![t] = "write"]
          /\ UNCHANGED <<state, value, ret, local, op, pre>>
       \/ /\ pc[t] = "slot"                        \* Some(val), val != expected
          /\ IsSome(value)
          /\ ~CasMatches(Unwrap(value), op[t].expected)
          /\ local' = [local EXCEPT ![t] = CasFailure(op[t].name, op[t].new, value)]
          /\ pc' = [pc EXCEPT ![t] = "store"]
          /\ UNCHANGED <<state, value, ret, op, pre>>
       \/ /\ pc[t] = "slot"                        \* None
          /\ ~IsSome(value)
          /\ local' = [local EXCEPT ![t] = CasFailure(op[t].name, op[t].new, None)]
          /\ pc' = [pc EXCEPT ![t] = "store"]
          /\ UNCHANGED <<state, value, ret, op, pre>>
       \/ /\ pc[t] = "write"                       \* *inner = Some(new); Ok(())
          /\ value' = Some(op[t].new)
          /\ local' = [local EXCEPT ![t] = Ok]
          /\ pc' = [pc EXCEPT ![t] = "store"]
          /\ UNCHANGED <<state, ret, op, pre>>
       \/ /\ pc[t] = "store"                       \* state.store(WAITING); ret
          /\ state' = WAITING
          /\ Return(t, local[t])
          /\ UNCHANGED value
    /\ UNCHANGED chanVars

\* ------------------------------------------------------- specifications

NoHist == [args |-> <<>>]

\* PingPongCell::new(value), no operation running.
Init ==
    /\ state = WAITING
    /\ value \in OptValues
    /\ pc = [t \in Threads |-> "idle"]
    /\ op = [t \in Threads |-> NoOp]
    /\ local = [t \in Threads |-> NoRet]
    /\ ret = [t \in Threads |-> NoRet]
    /\ pre = [t \in Threads |-> None]
    /\ notified = {}
    /\ hist = NoHist

Next ==
    \E t \in Threads :
        \/ Call(t)
        \/ \E o \in Ops : TryLock(t, o)
        \/ Take(t)
        \/ Put(t)
        \/ PutIfEmpty(t)
        \/ CloneInner(t)
        \/ CompareAndSwap(t)

Spec == Init /\ [][Next]_vars

\* ------------------------------------------- racing put_if_empty calls

PieOp(v) == [name |-> "put_if_empty", expected |-> 0, new |-> v]

\* An empty cell, and NRace threads that have each called put_if_empty with
\* a value of their own (hist.args) and stand at the loop head.
RaceInit ==
    /\ state = WAITING
    /\ value = None
    /\ pc = [t \in RaceThreads |-> "cas"]
    /\ op = [t \in RaceThreads |-> NoOp]
    /\ local = [t \in RaceThreads |-> NoRet]
    /\ ret = [t \in RaceThreads |-> NoRet]
    /\ pre = [t \in RaceThreads |-> None]
    /\ notified = {}
    /\ hist \in {[args |-> a] : a \in [RaceThreads -> Values]}

RaceNext ==
    \E t \in RaceThreads :
        \/ TryLock(t, PieOp(hist.args[t]))
        \/ PutIfEmpty(t)

RaceSpec == RaceInit /\ [][RaceNext]_vars

\* ------------------------------------- one thread, one call after another

NCalls == 4

Calls == 1..NCalls

\* the operations of the put/take round trip
SoloOps ==
    {o \in Ops : o.name \in {"put", "take", "clone_inner"}}

\* A cell holding anything, and one thread about to make the calls hist.args
\* in order; call i has its own frame (pc, op, local, ret at index i).
SoloInit ==
    /\ state = WAITING
    /\ value \in OptValues
    /\ pc = [i \in Calls |-> "idle"]
    /\ op = [i \in Calls |-> NoOp]
    /\ local = [i \in Calls |-> NoRet]
    /\ ret = [i \in Calls |-> NoRet]
    /\ pre = [i \in Calls |-> None]
    /\ notified = {}
    /\ hist \in {[args |-> a] : a \in [Calls -> SoloOps]}

\* the thread makes its i-th call once the one before has returned
SoloCall(i) ==
    /\ IF i = 1 THEN TRUE ELSE ret[i - 1] # NoRet
    /\ ret[i] = NoRet
    /\ Call(i)

SoloNext ==
    \E i \in Calls :
        \/ SoloCall(i)
        \/ TryLock(i, hist.args[i])
        \/ Take(i)
        \/ Put(i)
        \/ CloneInner(i)

SoloSpec == SoloInit /\ [][SoloNext]_vars

\* ===================================================================
\* The oneshot channel of src/tests/test.rs: one PingPongCell<State<T>>
\* shared by a Sender task "S" and a Receiver task "R".
\* ===================================================================

Tasks == {"S", "R"}

\* enum State<T> { Waker(Waker), Ready(T), Closed }; a Waker is named by the
\* task it wakes.
StWaker(k) == <<"Waker", k>>

StReady(v) == <<"Ready", v>>

StClosed == <<"Closed">>

IsWaker(slot) == IsSome(slot) /\ Unwrap(slot)[1] = "Waker"

IsReady(slot) == IsSome(slot) /\ Unwrap(slot)[1] = "Ready"

IsClosed(slot) == slot = Some(StClosed)

\* struct Closed(), Poll::Pending, Poll::Ready(x), Result<T, Closed>
Closed == <<"Closed">>

Pending == <<"Pending">>

PollReady(x) == <<"Ready", x>>

OkV(v) == <<"Ok", v>>

ChanOp(n, v) == [name |-> n, expected |-> 0, new |-> v]

\* What a transaction's closure does: the slot it leaves, the value it
\* returns, and the task whose Waker it wakes while it runs ("" for none).
Txn(slot, r, w) == [slot |-> slot, ret |-> r, wake |-> w]

\* ---- Sender::wait, the closure given to transact (the slot was take()n)
WaitFn(slot, wake_me) ==
    IF IsClosed(slot) THEN Txn(None, PollReady(Err(Closed)), "")
    ELSE IF IsWaker(slot) THEN Txn(slot, PollReady(Ok), "")
    ELSE Txn(Some(StWaker(wake_me)), Pending, "")

\* Faulty variant: the Waker of the party that was waiting is not handed back.
SendFnNoWake(slot, v) ==
    IF IsClosed(slot) THEN Txn(None, Err(Closed), "")
    ELSE Txn(Some(StReady(v)), OkV(None), "")

\* Faulty variant: a closed channel is not detected.
SendFnIgnoreClosed(slot, v) ==
    IF IsWaker(slot) THEN Txn(Some(StReady(v)), OkV(Some(Unwrap(slot)[2])), "")
    ELSE Txn(Some(StReady(v)), OkV(None), "")

\* ---- Sender::send, the closure given to transact
SendFn(slot, v) ==
    IF IsClosed(slot) THEN Txn(None, Err(Closed), "")
    ELSE IF IsWaker(slot) THEN Txn(Some(StReady(v)), OkV(Some(Unwrap(slot)[2])), "")
    ELSE Txn(Some(StReady(v)), OkV(None), "")

\* Faulty variant: the waiting party is not woken when the Sender goes away.
SenderDropFnNoWake(slot) ==
    IF IsWaker(slot) THEN Txn(Some(StClosed), None, "")
    ELSE IF IsSome(slot) THEN Txn(slot, None, "")
    ELSE Txn(Some(StClosed), None, "")

\* Faulty variant: the Sender's drop closes the channel over a value it sent.
SenderDropFnAlwaysClose(slot) ==
    IF IsWaker(slot) THEN Txn(Some(StClosed), Some(Unwrap(slot)[2]), "")
    ELSE Txn(Some(StClosed), None, "")

\* ---- Drop for Sender, the closure given to transact
SenderDropFn(slot) ==
    IF IsWaker(slot) THEN Txn(Some(StClosed), Some(Unwrap(slot)[2]), "")
    ELSE IF IsSome(slot) THEN Txn(slot, None, "")
    ELSE Txn(Some(StClosed), None, "")

\* Faulty variant: the Receiver's drop closes over a waiting Sender silently.
ReceiverDropFnNoWake(slot) == Txn(Some(StClosed), None, "")

\* Faulty variant: the Receiver's drop leaves a value nobody will take.
ReceiverDropFnKeepReady(slot) ==
    IF IsWaker(slot) THEN Txn(Some(StClosed), Some(Unwrap(slot)[2]), "")
    ELSE IF IsSome(slot) THEN Txn(slot, None, "")
    ELSE Txn(Some(StClosed), None, "")

\* ---- Drop for Receiver, the closure given to transact
ReceiverDropFn(slot) ==
    IF IsWaker(slot) THEN Txn(Some(StClosed), Some(Unwrap(slot)[2]), "")
    ELSE Txn(Some(StClosed), None, "")

\* Faulty variant: the Waker found in the slot is replaced without being woken.
PollFnNoWake(slot, own) ==
    IF IsClosed(slot) THEN Txn(None, PollReady(Err(Closed)), "")
    ELSE IF IsReady(slot) THEN Txn(None, PollReady(OkV(Unwrap(slot)[2])), "")
    ELSE Txn(Some(StWaker(own)), Pending, "")

\* ---- Future for Receiver::poll, the closure given to transact; it calls
\* waker.wake() on the Waker it found while the transaction runs.
PollFn(slot, own) ==
    IF IsClosed(slot) THEN Txn(None, PollReady(Err(Closed)), "")
    ELSE IF IsReady(slot) THEN Txn(None, PollReady(OkV(Unwrap(slot)[2])), "")
    ELSE IF IsWaker(slot) THEN Txn(Some(StWaker(own)), Pending, Unwrap(slot)[2])
    ELSE Txn(Some(StWaker(own)), Pending, "")

\* The closure of the operation task k is running.
ClosureOf(k, slot) ==
    CASE op[k].name = "wait" -> WaitFn(slot, k)
      [] op[k].name = "send" -> SendFn(slot, op[k].new)
      [] op[k].name = "poll" -> PollFn(slot, k)
      [] op[k].name = "drop" /\ k = "S" -> SenderDropFn(slot)
      [] op[k].name = "drop" /\ k = "R" -> ReceiverDropFn(slot)

\* Waker::wake: the task is scheduled for (at least) one more poll.
Wake(w) == IF w = "" THEN notified ELSE notified \cup {w}

\* What has happened on the channel so far.
ChanHist0 ==
    [polled |-> FALSE,       \* a poll of the Receiver has run its transaction
     rClosed |-> FALSE,      \* the Receiver's drop has run its transaction
     rEarly |-> FALSE,       \* the Receiver was dropped before it resolved
     lateSend |-> FALSE,     \* send ran its transaction after the Receiver's drop
     waitRet |-> NoRet,      \* what Sender::wait resolved to
     sendRet |-> NoRet,      \* what Sender::send returned
     sent |-> 0,             \* the value given to send
     resolved |-> 0,         \* how many polls of the Receiver returned Ready
     lockedWake |-> FALSE]   \* a Waker was woken by a task holding the lock

\* oneshot(): an empty cell, both handles alive, nothing running yet.
\* task k calls wake() on w while it is between transact's lock and unlock
WakesLocked(k, w) == w # "" /\ pc[k] \in {"slot", "store"} /\ state = WORKING

ChanInit ==
    /\ state = WAITING
    /\ value = None
    /\ pc = [k \in Tasks |-> "idle"]
    /\ op = [k \in Tasks |-> NoOp]
    /\ local = [k \in Tasks |-> NoRet]
    /\ ret = [k \in Tasks |-> NoRet]
    /\ pre = [k \in Tasks |-> None]
    /\ notified = {}
    /\ hist = ChanHist0

\* Task k calls operation o, which starts a transaction on the cell.
Begin(k, o) ==
    /\ pc' = [pc EXCEPT ![k] = "cas"]
    /\ op' = [op EXCEPT ![k] = o]
    /\ local' = [local EXCEPT ![k] = NoRet]

\* transact, first half: the compare_and_swap loop that wins the lock.
TransactLock(k) == TryLock(k, op[k])

\* transact, the closure runs on the slot with the lock held.
TransactBody(k) ==
    /\ pc[k] = "slot"
    /\ LET r == ClosureOf(k, value) IN
         /\ value' = r.slot
         /\ local' = [local EXCEPT ![k] = r.ret]
         /\ notified' = Wake(r.wake)
    /\ hist' = [hist EXCEPT !.polled = @ \/ op[k].name = "poll",
                            !.rClosed = @ \/ (op[k].name = "drop" /\ k = "R"),
                            !.lateSend = @ \/ (op[k].name = "send" /\ hist.rClosed),
                            !.lockedWake = @ \/ WakesLocked(k, ClosureOf(k, value).wake)]
    /\ pc' = [pc EXCEPT ![k] = "store"]
    /\ UNCHANGED <<state, op, ret, pre>>

\* transact, second half: the lock is released and the closure's result is
\* handed to the caller.
TransactRelease(k) ==
    /\ pc[k] = "store"
    /\ state' = WAITING
    /\ pc' = [pc EXCEPT ![k] = "after"]
    /\ UNCHANGED <<value, op, local, ret, pre, chanVars>>

\* ---- Sender ----------------------------------------------------------

\* The Sender is owned by its caller: not yet used, or handed back by wait.
SenderHeld == pc["S"] \in {"idle", "ready"}

WaitCall ==
    /\ pc["S"] = "idle"
    /\ Begin("S", ChanOp("wait", 0))
    /\ UNCHANGED <<state, value, ret, pre, chanVars>>

\* `match ret` of Sender::wait
WaitAfter ==
    /\ pc["S"] = "after" /\ op["S"].name = "wait"
    /\ \/ /\ local["S"] = Pending                     \* sleep().await
          /\ pc' = [pc EXCEPT !["S"] = "sleep"]
          /\ UNCHANGED <<op, local, ret, hist>>
       \/ /\ local["S"] = PollReady(Ok)               \* return Ok(self)
          /\ pc' = [pc EXCEPT !["S"] = "ready"]
          /\ op' = [op EXCEPT !["S"] = NoOp]
          /\ ret' = [ret EXCEPT !["S"] = Ok]
          /\ hist' = [hist EXCEPT !.waitRet = Ok]
          /\ UNCHANGED local
       \/ /\ local["S"] = PollReady(Err(Closed))      \* return Err(Closed()); self dropped
          /\ Begin("S", ChanOp("drop", 0))
          /\ ret' = [ret EXCEPT !["S"] = Err(Closed)]
          /\ hist' = [hist EXCEPT !.waitRet = Err(Closed)]
    /\ UNCHANGED <<state, value, pre, notified>>

SendCall(v) ==
    /\ SenderHeld
    /\ Begin("S", ChanOp("send", v))
    /\ hist' = [hist EXCEPT !.sent = v]
    /\ UNCHANGED <<state, value, ret, pre, notified>>

\* `match ret` of Sender::send, then `self` goes out of scope
SendAfter ==
    /\ pc["S"] = "after" /\ op["S"].name = "send"
    /\ LET r == IF local["S"][1] = "Err" THEN local["S"] ELSE Ok
           w == IF local["S"][1] = "Err" \/ local["S"][2] = None
                  THEN "" ELSE Unwrap(local["S"][2])
       IN /\ notified' = Wake(w)
          /\ ret' = [ret EXCEPT !["S"] = r]
          /\ hist' = [hist EXCEPT !.sendRet = r,
                                  !.lockedWake = @ \/ WakesLocked("S", w)]
    /\ Begin("S", ChanOp("drop", 0))
    /\ UNCHANGED <<state, value, pre>>

\* Sender::close, or the Sender (or the future of its wait) is dropped
SenderDropCall ==
    /\ SenderHeld \/ (pc["S"] = "sleep" /\ op["S"].name = "wait")
    /\ Begin("S", ChanOp("drop", 0))
    /\ UNCHANGED <<state, value, ret, pre, chanVars>>

\* `if let Some(waker) = ret { waker.wake() }` of either Drop
DropAfter(k) ==
    /\ pc[k] = "after" /\ op[k].name = "drop"
    /\ LET w == IF local[k] = None THEN "" ELSE Unwrap(local[k])
       IN /\ notified' = Wake(w)
          /\ hist' = [hist EXCEPT !.lockedWake = @ \/ WakesLocked(k, w)]
    /\ pc' = [pc EXCEPT ![k] = "done"]
    /\ op' = [op EXCEPT ![k] = NoOp]
    /\ local' = [local EXCEPT ![k] = NoRet]
    /\ UNCHANGED <<state, value, ret, pre>>

\* ---- Receiver --------------------------------------------------------

\* The executor polls the Receiver for the first time.
PollCall ==
    /\ pc["R"] = "idle"
    /\ Begin("R", ChanOp("poll", 0))
    /\ UNCHANGED <<state, value, ret, pre, chanVars>>

\* poll returns what the transaction returned
PollAfter ==
    /\ pc["R"] = "after" /\ op["R"].name = "poll"
    /\ \/ /\ local["R"] = Pending
          /\ pc' = [pc EXCEPT !["R"] = "sleep"]
          /\ UNCHANGED <<op, local, ret, hist>>
       \/ /\ local["R"] # Pending
          /\ pc' = [pc EXCEPT !["R"] = "resolved"]
          /\ op' = [op EXCEPT !["R"] = NoOp]
          /\ ret' = [ret EXCEPT !["R"] = local["R"][2]]
          /\ hist' = [hist EXCEPT !.resolved = @ + 1]
          /\ UNCHANGED local
    /\ UNCHANGED <<state, value, pre, notified>>

\* Receiver::close, or the Receiver is dropped: unused, pending or resolved
ReceiverDropCall ==
    /\ pc["R"] \in {"idle", "sleep", "resolved"}
    /\ Begin("R", ChanOp("drop", 0))
    /\ hist' = [hist EXCEPT !.rEarly = pc["R"] # "resolved"]
    /\ UNCHANGED <<state, value, ret, pre, notified>>

\* ---- the executor ----------------------------------------------------

\* A task that returned Pending is polled again after its Waker was woken;
\* the operation it was suspended in runs its transaction again.
Resume(k) ==
    /\ pc[k] = "sleep"
    /\ k \in notified
    /\ notified' = notified \ {k}
    /\ pc' = [pc EXCEPT ![k] = "cas"]
    /\ UNCHANGED <<state, value, op, local, ret, pre, hist>>

\* A task that returned Pending is polled again although nobody woke it.
Spurious(k) ==
    /\ pc[k] = "sleep"
    /\ k \notin notified
    /\ pc' = [pc EXCEPT ![k] = "cas"]
    /\ UNCHANGED <<state, value, op, local, ret, pre, chanVars>>

SenderStep ==
    \/ TransactLock("S") \/ TransactBody("S") \/ TransactRelease("S")
    \/ WaitAfter \/ SendAfter \/ DropAfter("S") \/ Resume("S")

ReceiverStep ==
    \/ TransactLock("R") \/ TransactBody("R") \/ TransactRelease("R")
    \/ PollAfter \/ DropAfter("R") \/ Resume("R")

ChanNext ==
    \/ WaitCall
    \/ \E v \in Values : SendCall(v)
    \/ SenderDropCall
    \/ PollCall
    \/ ReceiverDropCall
    \/ SenderStep
    \/ ReceiverStep
    \/ \E k \in Tasks : Spurious(k)

ChanSpec == ChanInit /\ [][ChanNext]_vars

\* Every step a task takes by itself once an operation runs, the lock apart.
SenderProgress ==
    \/ TransactBody("S") \/ TransactRelease("S")
    \/ WaitAfter \/ SendAfter \/ DropAfter("S") \/ Resume("S")

ReceiverProgress ==
    \/ PollCall
    \/ TransactBody("R") \/ TransactRelease("R")
    \/ PollAfter \/ DropAfter("R") \/ Resume("R")

\* The channel under a fair scheduler: a running operation keeps running, a
\* woken task is polled again, a Receiver that is not dropped is polled, and
\* a thread spinning on a lock that is free again and again wins it at some
\* point.  When the Sender is used, when a handle is dropped and whether a
\* task is polled without a wake are left open.
ChanLive ==
    /\ ChanSpec
    /\ WF_vars(SenderProgress)
    /\ WF_vars(ReceiverProgress)
    /\ SF_vars(TransactLock("S"))
    /\ SF_vars(TransactLock("R"))

\* ------------------------------------------------------------ properties

\* Between the compare_and_swap that won the lock and the return.
InCritical(t) == pc[t] \in {"slot", "write", "store"}

Holders == {t \in DOMAIN pc : InCritical(t)}

\* The step of thread t that returns from operation n.
Returns(t, n) == op[t].name = n /\ pc[t] # "idle" /\ pc'[t] = "idle"

\* C1: at most one thread is between its successful lock acquisition and its
\* return, so no two threads touch the slot at once.
C1_MutualExclusion == Cardinality(Holders) <= 1

\* C1 witness: one thread is inside the unsafe block while another spins at
\* the loop head on the held lock.
C1_Witness ==
    /\ state = WORKING
    /\ \E t \in DOMAIN pc : pc[t] = "write"
    /\ \E u \in DOMAIN pc : pc[u] = "cas"

\* C2: whenever no operation is in progress the lock word is WAITING.
C2_LockFreeWhenQuiescent ==
    (\A t \in DOMAIN pc : pc[t] = "idle") => state = WAITING

\* No step can change the state any more.
RaceStuck == ~ENABLED <<RaceNext>>_vars

RaceReturned == \A t \in RaceThreads : pc[t] = "idle"

\* C3: of N >= 2 put_if_empty calls racing on an empty cell every call
\* returns (the run never stops with a call still spinning), exactly one
\* returns Ok and its value is the one stored, and every other call returns
\* Err with its own value.
C3_SingleWinner ==
    /\ RaceStuck => RaceReturned
    /\ RaceReturned =>
         \E w \in RaceThreads :
            /\ ret[w] = Ok
            /\ value = Some(hist.args[w])
            /\ \A t \in RaceThreads \ {w} : ret[t] = Err(hist.args[t])

\* C4: put_if_empty(v) returns Ok with v stored if the slot was empty when it
\* ran, and otherwise returns Err(v) with the slot as it found it.
C4_PutIfEmpty ==
    [][\A t \in DOMAIN pc :
          Returns(t, "put_if_empty") =>
              IF pre[t] = None
                THEN ret'[t] = Ok /\ value' = Some(op[t].new)
                ELSE ret'[t] = Err(op[t].new) /\ value' = pre[t]]_vars

\* C4 witness: a put_if_empty that found the slot empty has written its value
\* and is about to return, after another call was rejected with Err.
C4_Witness ==
    /\ \E t \in DOMAIN pc :
          /\ op[t].name = "put_if_empty" /\ pc[t] = "store"
          /\ pre[t] = None /\ value = Some(op[t].new)
    /\ \E u \in DOMAIN pc : pc[u] = "idle" /\ ret[u] \in {Err(v) : v \in Values}

\* C5: compare_and_swap and compare_swap_clone return Ok with the slot set
\* to new exactly when the slot held a value equal to expected; otherwise the
\* slot is left as found and new comes back in the error, together with a
\* copy of the slot's content (or None) for compare_swap_clone.
C5_CompareAndSwap ==
    [][\A t \in DOMAIN pc :
          /\ Returns(t, "compare_and_swap") =>
                IF pre[t] = Some(op[t].expected)
                  THEN ret'[t] = Ok /\ value' = Some(op[t].new)
                  ELSE ret'[t] = Err(op[t].new) /\ value' = pre[t]
          /\ Returns(t, "compare_swap_clone") =>
                IF pre[t] = Some(op[t].expected)
                  THEN ret'[t] = Ok /\ value' = Some(op[t].new)
                  ELSE /\ ret'[t] = Err(<<op[t].new, pre[t]>>)
                       /\ value' = pre[t]]_vars

\* C5 witness: a compare_swap_clone that found a different value is about to
\* return it, after a compare-and-swap that matched returned Ok.
C5_Witness ==
    /\ \E t \in DOMAIN pc :
          /\ op[t].name = "compare_swap_clone" /\ pc[t] = "store"
          /\ IsSome(pre[t]) /\ Unwrap(pre[t]) # op[t].expected
          /\ local[t] = Err(<<op[t].new, pre[t]>>)
    /\ \E u \in DOMAIN pc : pc[u] = "idle" /\ ret[u] = Ok

\* C6: once send(v) is called the Receiver, unless it is dropped first,
\* eventually resolves Ok(v); it never resolves more than once.
C6_Handoff ==
    /\ (op["S"].name = "send") ~> (hist.rEarly \/ ret["R"] = OkV(hist.sent))
    /\ [](hist.resolved <= 1)

\* C6 witness: the Receiver is suspended, send has stored its value and woken
\* the Receiver's Waker.
C6_Witness ==
    /\ pc["R"] = "sleep" /\ "R" \in notified
    /\ hist.sendRet = Ok /\ value = Some(StReady(hist.sent))

\* C7: once the Sender is dropped without a send the Receiver, unless it is
\* dropped first, eventually resolves Err(Closed); and a Sender suspended in
\* wait() after the Receiver's drop eventually leaves wait() with Err(Closed)
\* (or is dropped itself).
C7_CloseWakes ==
    /\ (op["S"].name = "drop" /\ hist.sent = 0)
          ~> (hist.rEarly \/ ret["R"] = Err(Closed))
    /\ (pc["S"] = "sleep" /\ hist.rClosed)
          ~> (hist.waitRet = Err(Closed) \/ pc["S"] = "done")

\* C7 witness: the Receiver is suspended and the Sender's drop, with nothing
\* sent, has closed the slot and woken it.
C7_Witness ==
    /\ pc["R"] = "sleep" /\ "R" \in notified
    /\ hist.sent = 0 /\ IsClosed(value) /\ ~hist.rClosed

\* C8: a send whose transaction runs after the Receiver's drop does not
\* return Ok, returns Err(Closed) when it returns, and its value is neither
\* left in the slot nor handed to the Receiver.
C8_ReceiverClosedFirst ==
    hist.lateSend =>
        /\ hist.sendRet \in {NoRet, Err(Closed)}
        /\ pc["S"] = "done" => hist.sendRet = Err(Closed)
        /\ op["S"].name = "send" /\ pc["S"] \in {"store", "after"}
              => local["S"] = Err(Closed)
        /\ ~IsReady(value)
        /\ ret["R"] \notin {OkV(v) : v \in Values}

\* C8 witness: a Receiver that was polled and then dropped, and a send that
\* ran afterwards and has returned.
C8_Witness ==
    /\ hist.lateSend /\ hist.polled
    /\ pc["S"] = "done" /\ hist.sendRet = Err(Closed)

\* C9: a Sender in wait() eventually gets Ok(sender) unless the Receiver (or
\* the waiting Sender) is dropped; a send after that returns Ok and the
\* Receiver eventually resolves Ok(v); the two tasks are never both
\* suspended with no wake pending.
C9_Handshake ==
    /\ (op["S"].name = "wait")
          ~> (hist.waitRet = Ok \/ hist.rEarly \/ pc["S"] = "done")
    /\ (hist.waitRet = Ok /\ op["S"].name = "send")
          ~> (hist.rEarly \/ (hist.sendRet = Ok /\ ret["R"] = OkV(hist.sent)))
    /\ [](hist.waitRet = Ok /\ ~hist.rEarly => hist.sendRet \in {NoRet, Ok})
    /\ [](~(pc["S"] = "sleep" /\ pc["R"] = "sleep" /\ notified = {}))

\* C9 witness: wait() returned Ok, the send after it returned Ok and the
\* Receiver resolved Ok(v).
C9_Witness ==
    /\ hist.waitRet = Ok /\ hist.sendRet = Ok
    /\ ret["R"] = OkV(hist.sent) /\ hist.sent \in Values

\* C10: whenever wait() resolves Ok the Receiver has been polled and the
\* Waker in the slot is the Receiver's.
C10_WaitMeansReceiver ==
    /\ hist.waitRet = Ok => hist.polled
    /\ op["S"].name = "wait" /\ pc["S"] = "store" /\ local["S"] = PollReady(Ok)
          => hist.polled /\ value = Some(StWaker("R"))

\* ---- the terminal state of the channel ------------------------------------

\* C11: Closed is absorbing: once the slot holds Closed, it holds Closed in
\* every later state of the channel.
C11_ClosedAbsorbing == [][IsClosed(value) => IsClosed(value')]_vars

\* the fields a struct value carries after its tag
Carries(e, x) == \E i \in 2..Len(e) : e[i] = x

\* C12 (as written): a send(v) that fails with Closed hands v back in its result.
C12_RejectedSendReturnsValue ==
    (hist.sendRet # NoRet /\ hist.sendRet # Ok) => Carries(hist.sendRet[2], hist.sent)

\* C12 (amended): a send(v) that finds the slot Closed returns exactly
\* Err(Closed()), a unit struct: v is dropped with the closure and is not in
\* the result.
C12_RejectedSendDropsValue ==
    /\ (op["S"].name = "send" /\ pc["S"] = "store" /\ IsClosed(pre["S"]))
          => local["S"] = Err(Closed)
    /\ (hist.sendRet # NoRet /\ hist.sendRet # Ok)
          => hist.sendRet = Err(Closed) /\ ~Carries(hist.sendRet[2], hist.sent)

\* a send was rejected and has returned
C12_Witness == hist.sendRet = Err(Closed) /\ hist.sent \in Values

\* ---- where the wakes happen, and what each transaction does -----------------

\* C13: every wake notification is delivered outside the lock: in send, in the
\* Sender's drop, in the Receiver's drop and in the Receiver's poll no task
\* calls wake() between transact's lock and unlock.
C13_WakeOutsideLock == ~hist.lockedWake

\* the steps of a transaction of task k running the operation n
BodyStep(k, n) == op[k].name = n /\ pc[k] = "slot" /\ pc'[k] = "store"
AfterStep(k, n) == op[k].name = n /\ pc[k] = "after" /\ pc'[k] # "after"

\* C14: send(v) from Closed fails with Closed and leaves the slot Closed; from
\* Waiting(h) it sets Ready(v) and notifies h, once, after the transaction;
\* from Empty it sets Ready(v) and notifies nobody.
C14_SendTransitions ==
    [][/\ BodyStep("S", "send") =>
            /\ notified' = notified
            /\ IsClosed(value) => IsClosed(value') /\ local'["S"] = Err(Closed)
            /\ ~IsClosed(value) => value' = Some(StReady(hist.sent))
       /\ AfterStep("S", "send") =>
            /\ IsClosed(pre["S"]) => ret'["S"] = Err(Closed) /\ notified' = notified
            /\ IsWaker(pre["S"]) =>
                  ret'["S"] = Ok /\ notified' = notified \cup {Unwrap(pre["S"])[2]}
            /\ pre["S"] = None => ret'["S"] = Ok /\ notified' = notified]_vars

\* C15: the Sender's drop (also the one at the end of send) leaves Ready(v) and
\* Closed as they are, turns Waiting(h) into Closed and notifies h after the
\* transaction, and turns Empty into Closed.
C15_SenderDrop ==
    [][/\ BodyStep("S", "drop") =>
            /\ notified' = notified
            /\ (IsReady(value) \/ IsClosed(value)) =>
                  value' = value /\ local'["S"] = None
            /\ IsWaker(value) =>
                  value' = Some(StClosed) /\ local'["S"] = Some(Unwrap(value)[2])
            /\ value = None => value' = Some(StClosed) /\ local'["S"] = None
       /\ AfterStep("S", "drop") =>
            IF IsWaker(pre["S"])
              THEN notified' = notified \cup {Unwrap(pre["S"])[2]}
              ELSE notified' = notified]_vars

\* the drop at the end of a successful send found the value and left it
C15_Witness ==
    /\ op["S"].name = "drop" /\ pc["S"] = "store" /\ hist.sendRet = Ok
    /\ IsReady(pre["S"]) /\ value = pre["S"]

\* C16: the Receiver's drop always closes: whatever the slot held, it holds
\* Closed afterwards; a pending Ready(v) is discarded and a handle found in
\* Waiting is notified after the transaction.
C16_ReceiverDrop ==
    [][/\ BodyStep("R", "drop") =>
            /\ notified' = notified
            /\ value' = Some(StClosed)
            /\ local'["R"] = IF IsWaker(value) THEN Some(Unwrap(value)[2]) ELSE None
       /\ AfterStep("R", "drop") =>
            IF IsWaker(pre["R"])
              THEN notified' = notified \cup {Unwrap(pre["R"])[2]}
              ELSE notified' = notified]_vars

\* the Receiver was dropped over a value that had been sent and not taken
C16_Witness ==
    /\ op["R"].name = "drop" /\ pc["R"] = "store"
    /\ IsReady(pre["R"]) /\ value = Some(StClosed)

\* ---- the cell used by one thread ---------------------------------------------

\* the thread can take no further step
SoloStuck == ~ENABLED <<SoloNext>>_vars

\* call i has returned and the next call has not been made
JustReturned(i) ==
    /\ pc[i] = "idle" /\ ret[i] # NoRet
    /\ IF i = NCalls THEN TRUE ELSE pc[i + 1] = "idle" /\ ret[i + 1] = NoRet

\* C17: on one thread, a take() that follows put(v) returns Some(v) and leaves
\* the slot empty (so after put(v); put(w) it returns Some(w)), and a second
\* take() or a clone_inner() after that take returns, and returns None.
C17_PutTakeRoundTrip ==
    /\ \A i \in 1..(NCalls - 1) :
          (hist.args[i].name = "put" /\ hist.args[i + 1].name = "take"
             /\ JustReturned(i + 1))
            => ret[i + 1] = Some(hist.args[i].new) /\ value = None
    /\ \A i \in 1..(NCalls - 2) :
          (hist.args[i].name = "put" /\ hist.args[i + 1].name = "take"
             /\ hist.args[i + 2].name \in {"take", "clone_inner"})
            => /\ ret[i + 2] \in {NoRet, None}
               /\ (ret[i] # NoRet /\ SoloStuck) => ret[i + 2] # NoRet

\* ---- registered handles ------------------------------------------------------

\* the results with which a closure hands the handle h out of its transaction
HandsOut(h) == {Some(h), OkV(Some(h))}

\* C18: no registered wake handle is silently lost: in every transaction, a
\* handle that was stored in Waiting and is removed or overwritten is notified
\* by the party that removed it, in the closure or right after the transaction.
C18_NoLostHandle ==
    [][\A k \in Tasks :
        /\ (pc[k] = "slot" /\ pc'[k] = "store" /\ IsWaker(value)
               /\ (value' # value \/ op[k].name = "poll"))
             => \/ Unwrap(value)[2] \in notified'
                \/ local'[k] \in HandsOut(Unwrap(value)[2])
        /\ \A h \in Tasks :
             (pc[k] = "after" /\ pc'[k] # "after" /\ local[k] \in HandsOut(h))
             => h \in notified']_vars

\* the Receiver's drop removed the handle of a waiting Sender, which has been
\* notified
C18_Witness ==
    /\ pc["R"] = "done" /\ pre["R"] = Some(StWaker("S"))
    /\ "S" \in notified /\ value = Some(StClosed)

\* C19: a suspended Receiver does not wake itself: the handle poll notifies
\* when it finds Waiting(existing) is the Sender's, never the Receiver's own
\* earlier registration, so a poll that returns Pending leaves no wake of the
\* Receiver outstanding that was not there before.
C19_NoSelfWake ==
    [][(BodyStep("R", "poll") /\ IsWaker(value))
         => /\ Unwrap(value)[2] = "S"
            /\ "R" \in notified' => "R" \in notified]_vars

\* ---- outcomes ----------------------------------------------------------------

\* send's transaction stored the value: send returns, or has returned, Ok
SendOk ==
    \/ hist.sendRet = Ok
    \/ op["S"].name = "send" /\ pc["S"] \in {"store", "after"} /\ local["S"][1] = "Ok"

\* C20: outcome consistency: the Receiver resolves Ok(v) only if send(v) with
\* that same v succeeded; at most one value is ever delivered; and once
\* send(v) has returned Ok the Receiver does not resolve Err(Closed).
C20_OutcomeConsistency ==
    /\ \A v \in Values : ret["R"] = OkV(v) => hist.sent = v /\ SendOk
    /\ hist.resolved <= 1
    /\ hist.sendRet = Ok => ret["R"] # Err(Closed)

\* the value was sent and received
C20_Witness ==
    /\ hist.sendRet = Ok /\ hist.resolved = 1
    /\ ret["R"] = OkV(hist.sent) /\ hist.sent \in Values

====
